---- MODULE Spec2Model ----
(***************************************************************************)
(* Model of the interactive shell of shell_code_roast: main.py, shell.py   *)
(* and command.py.  A Python str is a sequence of code points, a bytes     *)
(* object a sequence of integers 0..255.  A call that may raise returns a  *)
(* record [ok |-> TRUE, val |-> v] or [ok |-> FALSE, exc |-> class,        *)
(* why |-> tag].                                                           *)
(***************************************************************************)
EXTENDS Integers, Sequences, FiniteSets, TLC

(***************************************************************************)
(* Bounds of the checked input space.                                      *)
(***************************************************************************)
\* longest argument list typed on one line
MaxArgs == 3
\* longest text (in code points) put through encode then decode
MaxTextLen == 4

(***************************************************************************)
(* String literals.  Glyphs lists the characters "0" .. "z" in code order  *)
(* (code 48 to 122); the entries with longer names stand for characters    *)
(* that no literal of this module uses.                                    *)
(***************************************************************************)
Glyphs ==
  <<"0","1","2","3","4","5","6","7","8","9","colon","semi","lt","=","gt","qm",
    "at","A","B","C","D","E","F","G","H","I","J","K","L","M","N","O",
    "P","Q","R","S","T","U","V","W","X","Y","Z","lbr","bsl","rbr","hat","_",
    "btick","a","b","c","d","e","f","g","h","i","j","k","l","m","n","o",
    "p","q","r","s","t","u","v","w","x","y","z">>

Ord(c) == 47 + (CHOOSE i \in 1..Len(Glyphs) : Glyphs[i] = c)

Str(s) == [i \in 1..Len(s) |-> Ord(s[i])]

Range(a, b) == [i \in 1..(b - a + 1) |-> a + i - 1]

SPACE == 32

Ok(v) == [ok |-> TRUE, val |-> v]

Raise(e, w) == [ok |-> FALSE, exc |-> e, why |-> w]

(***************************************************************************)
(* str.upper(), str.strip() and str.split(' ') on code points.             *)
(*                                                                         *)
(* str.upper() replaces each character by its upper-case mapping in the    *)
(* Unicode database of the interpreter (14.0.0), which is one code point   *)
(* for most characters and two or three for those SpecialCasing lists.     *)
(* UpperRuns holds the one-to-one mappings as <<first, last, step, delta>>:*)
(* every code point first, first + step, .. last maps to itself + delta.   *)
(* A code point in neither table is its own upper case.                    *)
(***************************************************************************)
UpperRuns ==
  <<
    <<97,122,1,-32>>, <<181,181,1,743>>, <<224,246,1,-32>>,
    <<248,254,1,-32>>, <<255,255,1,121>>, <<257,303,2,-1>>,
    <<305,305,1,-232>>, <<307,311,2,-1>>, <<314,328,2,-1>>,
    <<331,375,2,-1>>, <<378,382,2,-1>>, <<383,383,1,-300>>,
    <<384,384,1,195>>, <<387,389,2,-1>>, <<392,392,1,-1>>,
    <<396,396,1,-1>>, <<402,402,1,-1>>, <<405,405,1,97>>,
    <<409,409,1,-1>>, <<410,410,1,163>>, <<414,414,1,130>>,
    <<417,421,2,-1>>, <<424,424,1,-1>>, <<429,429,1,-1>>,
    <<432,432,1,-1>>, <<436,438,2,-1>>, <<441,441,1,-1>>,
    <<445,445,1,-1>>, <<447,447,1,56>>, <<453,453,1,-1>>,
    <<454,454,1,-2>>, <<456,456,1,-1>>, <<457,457,1,-2>>,
    <<459,459,1,-1>>, <<460,460,1,-2>>, <<462,476,2,-1>>,
    <<477,477,1,-79>>, <<479,495,2,-1>>, <<498,498,1,-1>>,
    <<499,499,1,-2>>, <<501,501,1,-1>>, <<505,543,2,-1>>,
    <<547,563,2,-1>>, <<572,572,1,-1>>, <<575,576,1,10815>>,
    <<578,578,1,-1>>, <<583,591,2,-1>>, <<592,592,1,10783>>,
    <<593,593,1,10780>>, <<594,594,1,10782>>, <<595,595,1,-210>>,
    <<596,596,1,-206>>, <<598,599,1,-205>>, <<601,601,1,-202>>,
    <<603,603,1,-203>>, <<604,604,1,42319>>, <<608,608,1,-205>>,
    <<609,609,1,42315>>, <<611,611,1,-207>>, <<613,613,1,42280>>,
    <<614,614,1,42308>>, <<616,616,1,-209>>, <<617,617,1,-211>>,
    <<618,618,1,42308>>, <<619,619,1,10743>>, <<620,620,1,42305>>,
    <<623,623,1,-211>>, <<625,625,1,10749>>, <<626,626,1,-213>>,
    <<629,629,1,-214>>, <<637,637,1,10727>>, <<640,640,1,-218>>,
    <<642,642,1,42307>>, <<643,643,1,-218>>, <<647,647,1,42282>>,
    <<648,648,1,-218>>, <<649,649,1,-69>>, <<650,651,1,-217>>,
    <<652,652,1,-71>>, <<658,658,1,-219>>, <<669,669,1,42261>>,
    <<670,670,1,42258>>, <<837,837,1,84>>, <<881,883,2,-1>>,
    <<887,887,1,-1>>, <<891,893,1,130>>, <<940,940,1,-38>>,
    <<941,943,1,-37>>, <<945,961,1,-32>>, <<962,962,1,-31>>,
    <<963,971,1,-32>>, <<972,972,1,-64>>, <<973,974,1,-63>>,
    <<976,976,1,-62>>, <<977,977,1,-57>>, <<981,981,1,-47>>,
    <<982,982,1,-54>>, <<983,983,1,-8>>, <<985,1007,2,-1>>,
    <<1008,1008,1,-86>>, <<1009,1009,1,-80>>, <<1010,1010,1,7>>,
    <<1011,1011,1,-116>>, <<1013,1013,1,-96>>, <<1016,1016,1,-1>>,
    <<1019,1019,1,-1>>, <<1072,1103,1,-32>>, <<1104,1119,1,-80>>,
    <<1121,1153,2,-1>>, <<1163,1215,2,-1>>, <<1218,1230,2,-1>>,
    <<1231,1231,1,-15>>, <<1233,1327,2,-1>>, <<1377,1414,1,-48>>,
    <<4304,4346,1,3008>>, <<4349,4351,1,3008>>, <<5112,5117,1,-8>>,
    <<7296,7296,1,-6254>>, <<7297,7297,1,-6253>>, <<7298,7298,1,-6244>>,
    <<7299,7300,1,-6242>>, <<7301,7301,1,-6243>>, <<7302,7302,1,-6236>>,
    <<7303,7303,1,-6181>>, <<7304,7304,1,35266>>, <<7545,7545,1,35332>>,
    <<7549,7549,1,3814>>, <<7566,7566,1,35384>>, <<7681,7829,2,-1>>,
    <<7835,7835,1,-59>>, <<7841,7935,2,-1>>, <<7936,7943,1,8>>,
    <<7952,7957,1,8>>, <<7968,7975,1,8>>, <<7984,7991,1,8>>,
    <<8000,8005,1,8>>, <<8017,8023,2,8>>, <<8032,8039,1,8>>,
    <<8048,8049,1,74>>, <<8050,8053,1,86>>, <<8054,8055,1,100>>,
    <<8056,8057,1,128>>, <<8058,8059,1,112>>, <<8060,8061,1,126>>,
    <<8112,8113,1,8>>, <<8126,8126,1,-7205>>, <<8144,8145,1,8>>,
    <<8160,8161,1,8>>, <<8165,8165,1,7>>, <<8526,8526,1,-28>>,
    <<8560,8575,1,-16>>, <<8580,8580,1,-1>>, <<9424,9449,1,-26>>,
    <<11312,11359,1,-48>>, <<11361,11361,1,-1>>, <<11365,11365,1,-10795>>,
    <<11366,11366,1,-10792>>, <<11368,11372,2,-1>>, <<11379,11379,1,-1>>,
    <<11382,11382,1,-1>>, <<11393,11491,2,-1>>, <<11500,11502,2,-1>>,
    <<11507,11507,1,-1>>, <<11520,11557,1,-7264>>,
    <<11559,11559,1,-7264>>, <<11565,11565,1,-7264>>,
    <<42561,42605,2,-1>>, <<42625,42651,2,-1>>, <<42787,42799,2,-1>>,
    <<42803,42863,2,-1>>, <<42874,42876,2,-1>>, <<42879,42887,2,-1>>,
    <<42892,42892,1,-1>>, <<42897,42899,2,-1>>, <<42900,42900,1,48>>,
    <<42903,42921,2,-1>>, <<42933,42947,2,-1>>, <<42952,42954,2,-1>>,
    <<42961,42961,1,-1>>, <<42967,42969,2,-1>>, <<42998,42998,1,-1>>,
    <<43859,43859,1,-928>>, <<43888,43967,1,-38864>>,
    <<65345,65370,1,-32>>, <<66600,66639,1,-40>>, <<66776,66811,1,-40>>,
    <<66967,67003,2,-39>>, <<66968,66977,1,-39>>, <<66980,66993,1,-39>>,
    <<66996,67001,1,-39>>, <<67004,67004,1,-39>>, <<68800,68850,1,-64>>,
    <<71872,71903,1,-32>>, <<93792,93823,1,-32>>, <<125218,125251,1,-34>> >>

\* <<code point, its upper case>> where that is more than one code point
SpecialCasing ==
  <<
    <<223,<<83,83>>>>, <<329,<<700,78>>>>, <<496,<<74,780>>>>,
    <<912,<<921,776,769>>>>, <<944,<<933,776,769>>>>,
    <<1415,<<1333,1362>>>>, <<7830,<<72,817>>>>, <<7831,<<84,776>>>>,
    <<7832,<<87,778>>>>, <<7833,<<89,778>>>>, <<7834,<<65,702>>>>,
    <<8016,<<933,787>>>>, <<8018,<<933,787,768>>>>,
    <<8020,<<933,787,769>>>>, <<8022,<<933,787,834>>>>,
    <<8064,<<7944,921>>>>, <<8065,<<7945,921>>>>, <<8066,<<7946,921>>>>,
    <<8067,<<7947,921>>>>, <<8068,<<7948,921>>>>, <<8069,<<7949,921>>>>,
    <<8070,<<7950,921>>>>, <<8071,<<7951,921>>>>, <<8072,<<7944,921>>>>,
    <<8073,<<7945,921>>>>, <<8074,<<7946,921>>>>, <<8075,<<7947,921>>>>,
    <<8076,<<7948,921>>>>, <<8077,<<7949,921>>>>, <<8078,<<7950,921>>>>,
    <<8079,<<7951,921>>>>, <<8080,<<7976,921>>>>, <<8081,<<7977,921>>>>,
    <<8082,<<7978,921>>>>, <<8083,<<7979,921>>>>, <<8084,<<7980,921>>>>,
    <<8085,<<7981,921>>>>, <<8086,<<7982,921>>>>, <<8087,<<7983,921>>>>,
    <<8088,<<7976,921>>>>, <<8089,<<7977,921>>>>, <<8090,<<7978,921>>>>,
    <<8091,<<7979,921>>>>, <<8092,<<7980,921>>>>, <<8093,<<7981,921>>>>,
    <<8094,<<7982,921>>>>, <<8095,<<7983,921>>>>, <<8096,<<8040,921>>>>,
    <<8097,<<8041,921>>>>, <<8098,<<8042,921>>>>, <<8099,<<8043,921>>>>,
    <<8100,<<8044,921>>>>, <<8101,<<8045,921>>>>, <<8102,<<8046,921>>>>,
    <<8103,<<8047,921>>>>, <<8104,<<8040,921>>>>, <<8105,<<8041,921>>>>,
    <<8106,<<8042,921>>>>, <<8107,<<8043,921>>>>, <<8108,<<8044,921>>>>,
    <<8109,<<8045,921>>>>, <<8110,<<8046,921>>>>, <<8111,<<8047,921>>>>,
    <<8114,<<8122,921>>>>, <<8115,<<913,921>>>>, <<8116,<<902,921>>>>,
    <<8118,<<913,834>>>>, <<8119,<<913,834,921>>>>, <<8124,<<913,921>>>>,
    <<8130,<<8138,921>>>>, <<8131,<<919,921>>>>, <<8132,<<905,921>>>>,
    <<8134,<<919,834>>>>, <<8135,<<919,834,921>>>>, <<8140,<<919,921>>>>,
    <<8146,<<921,776,768>>>>, <<8147,<<921,776,769>>>>,
    <<8150,<<921,834>>>>, <<8151,<<921,776,834>>>>,
    <<8162,<<933,776,768>>>>, <<8163,<<933,776,769>>>>,
    <<8164,<<929,787>>>>, <<8166,<<933,834>>>>, <<8167,<<933,776,834>>>>,
    <<8178,<<8186,921>>>>, <<8179,<<937,921>>>>, <<8180,<<911,921>>>>,
    <<8182,<<937,834>>>>, <<8183,<<937,834,921>>>>, <<8188,<<937,921>>>>,
    <<64256,<<70,70>>>>, <<64257,<<70,73>>>>, <<64258,<<70,76>>>>,
    <<64259,<<70,70,73>>>>, <<64260,<<70,70,76>>>>, <<64261,<<83,84>>>>,
    <<64262,<<83,84>>>>, <<64275,<<1348,1350>>>>, <<64276,<<1348,1333>>>>,
    <<64277,<<1348,1339>>>>, <<64278,<<1358,1350>>>>,
    <<64279,<<1348,1341>>>> >>

InRun(c, run) == c >= run[1] /\ c <= run[2] /\ (c - run[1]) % run[3] = 0

\* chr(c).upper(), as a sequence of code points
UpperChar(c) ==
  IF c < 128 THEN <<(IF c \in 97..122 THEN c - 32 ELSE c)>>
  ELSE LET special == SelectSeq(SpecialCasing, LAMBDA e : e[1] = c)
           runs == SelectSeq(UpperRuns, LAMBDA r : InRun(c, r))
       IN  IF special # <<>> THEN special[1][2]
           ELSE IF runs # <<>> THEN <<c + runs[1][4]>>
           ELSE <<c>>

RECURSIVE StrUpper(_)
StrUpper(s) ==
  IF s = <<>> THEN <<>> ELSE UpperChar(Head(s)) \o StrUpper(Tail(s))

\* the characters str.strip() removes: those str.isspace() accepts
IsSpace(c) ==
  c \in {9, 10, 11, 12, 13, 28, 29, 30, 31, 32, 133, 160, 5760,
         8192, 8193, 8194, 8195, 8196, 8197, 8198, 8199, 8200, 8201, 8202,
         8232, 8233, 8239, 8287, 12288}

RECURSIVE LStrip(_)
LStrip(s) ==
  IF s # <<>> /\ IsSpace(Head(s)) THEN LStrip(Tail(s)) ELSE s

RECURSIVE RStrip(_)
RStrip(s) ==
  IF s # <<>> /\ IsSpace(s[Len(s)]) THEN RStrip(SubSeq(s, 1, Len(s) - 1)) ELSE s

StrStrip(s) == RStrip(LStrip(s))

\* s.split(' '): cut at every code 32; n + 1 pieces for n spaces.
\* A variant that drops empty pieces, as s.split() does.
SplitCollapsing(s) ==
  LET Cut(i, j) == SubSeq(s, i, j)
      starts == {i \in 1..Len(s) : s[i] # SPACE /\ (i = 1 \/ s[i - 1] = SPACE)}
      EndOf(i) == CHOOSE j \in i..Len(s) :
                    /\ \A k \in i..j : s[k] # SPACE
                    /\ (j = Len(s) \/ s[j + 1] = SPACE)
      RECURSIVE From(_)
      From(i) ==
        IF \A k \in i..Len(s) : s[k] = SPACE THEN <<>>
        ELSE LET b == CHOOSE k \in starts : k >= i /\ \A m \in starts : m >= i => k <= m
             IN  <<Cut(b, EndOf(b))>> \o From(EndOf(b) + 1)
  IN  IF From(1) = <<>> THEN << <<>> >> ELSE From(1)

RECURSIVE SplitSpace(_)
SplitSpace(s) ==
  IF \A i \in 1..Len(s) : s[i] # SPACE THEN <<s>>
  ELSE LET k == CHOOSE i \in 1..Len(s) :
                   s[i] = SPACE /\ \A j \in 1..(i - 1) : s[j] # SPACE
       IN  <<SubSeq(s, 1, k - 1)>> \o SplitSpace(SubSeq(s, k + 1, Len(s)))

(***************************************************************************)
(* str.encode() and bytes.decode(): strict UTF-8.                          *)
(***************************************************************************)
Utf8EncodeChar(c) ==
  IF c < 128 THEN <<c>>
  ELSE IF c < 2048 THEN <<192 + (c \div 64), 128 + (c % 64)>>
  ELSE IF c < 65536
    THEN <<224 + (c \div 4096), 128 + ((c \div 64) % 64), 128 + (c % 64)>>
  ELSE <<240 + (c \div 262144), 128 + ((c \div 4096) % 64),
         128 + ((c \div 64) % 64), 128 + (c % 64)>>

RECURSIVE Utf8EncodeRec(_)
Utf8EncodeRec(s) ==
  IF s = <<>> THEN <<>> ELSE Utf8EncodeChar(Head(s)) \o Utf8EncodeRec(Tail(s))

\* str.encode(): lone surrogates cannot be encoded.
StrEncode(s) ==
  IF \E i \in 1..Len(s) : s[i] \in 55296..57343
  THEN Raise("UnicodeEncodeError", "surrogates not allowed")
  ELSE Ok(Utf8EncodeRec(s))

IsCont(b) == b \in 128..191

\* Number of bytes of the well-formed UTF-8 sequence starting at b[i]; 0 if none.
Utf8SeqLen(b, i) ==
  LET n == Len(b)
      b0 == b[i]
      b1 == IF i + 1 <= n THEN b[i + 1] ELSE 0
      b2 == IF i + 2 <= n THEN b[i + 2] ELSE 0
      b3 == IF i + 3 <= n THEN b[i + 3] ELSE 0
  IN  IF b0 < 128 THEN 1
      ELSE IF b0 \in 194..223 THEN (IF IsCont(b1) THEN 2 ELSE 0)
      ELSE IF b0 = 224 THEN (IF b1 \in 160..191 /\ IsCont(b2) THEN 3 ELSE 0)
      ELSE IF b0 = 237 THEN (IF b1 \in 128..159 /\ IsCont(b2) THEN 3 ELSE 0)
      ELSE IF b0 \in 225..239 THEN (IF IsCont(b1) /\ IsCont(b2) THEN 3 ELSE 0)
      ELSE IF b0 = 240
        THEN (IF b1 \in 144..191 /\ IsCont(b2) /\ IsCont(b3) THEN 4 ELSE 0)
      ELSE IF b0 \in 241..243
        THEN (IF IsCont(b1) /\ IsCont(b2) /\ IsCont(b3) THEN 4 ELSE 0)
      ELSE IF b0 = 244
        THEN (IF b1 \in 128..143 /\ IsCont(b2) /\ IsCont(b3) THEN 4 ELSE 0)
      ELSE 0

Utf8CodePoint(b, i, n) ==
  IF n = 1 THEN b[i]
  ELSE IF n = 2 THEN (b[i] - 192) * 64 + (b[i + 1] - 128)
  ELSE IF n = 3
    THEN (b[i] - 224) * 4096 + (b[i + 1] - 128) * 64 + (b[i + 2] - 128)
  ELSE (b[i] - 240) * 262144 + (b[i + 1] - 128) * 4096
       + (b[i + 2] - 128) * 64 + (b[i + 3] - 128)

RECURSIVE Utf8DecodeFrom(_, _)
Utf8DecodeFrom(b, i) ==
  IF i > Len(b) THEN Ok(<<>>)
  ELSE LET n == Utf8SeqLen(b, i)
       IN  IF n = 0 THEN Raise("UnicodeDecodeError", "invalid utf-8")
           ELSE LET rest == Utf8DecodeFrom(b, i + n)
                IN  IF rest.ok
                    THEN Ok(<<Utf8CodePoint(b, i, n)>> \o rest.val)
                    ELSE rest

BytesDecode(b) == Utf8DecodeFrom(b, 1)

\* base64._bytes_from_decode_data on a str: s.encode('ascii').
_bytes_from_decode_data(s) ==
  IF \E i \in 1..Len(s) : s[i] > 127
  THEN Raise("ValueError", "string argument should contain only ASCII characters")
  ELSE Ok(s)

(***************************************************************************)
(* Bit and sequence helpers for the codecs.                                *)
(***************************************************************************)
RECURSIVE Flatten(_)
Flatten(ss) == IF ss = <<>> THEN <<>> ELSE Head(ss) \o Flatten(Tail(ss))

Pow2(k) == IF k = 0 THEN 1 ELSE IF k = 1 THEN 2 ELSE IF k = 2 THEN 4
  ELSE IF k = 3 THEN 8 ELSE IF k = 4 THEN 16 ELSE IF k = 5 THEN 32
  ELSE IF k = 6 THEN 64 ELSE 128

\* the w-bit big-endian binary form of n
BitsOf(n, w) == [i \in 1..w |-> (n \div Pow2(w - i)) % 2]

RECURSIVE BitsToInt(_)
BitsToInt(bits) ==
  IF bits = <<>> THEN 0
  ELSE 2 * BitsToInt(SubSeq(bits, 1, Len(bits) - 1)) + bits[Len(bits)]

BytesToBits(b) == Flatten([i \in 1..Len(b) |-> BitsOf(b[i], 8)])

\* cut a bit string into w-bit groups (its length is a multiple of w)
Groups(bits, w) ==
  [g \in 1..(Len(bits) \div w) |-> BitsToInt(SubSeq(bits, w * (g - 1) + 1, w * g))]

Zeros(n) == [i \in 1..n |-> 0]

Repeat(c, n) == [i \in 1..n |-> c]

\* position of c in an alphabet, counted from 0; -1 when absent
IndexIn(alphabet, c) ==
  IF \E i \in 1..Len(alphabet) : alphabet[i] = c
  THEN (CHOOSE i \in 1..Len(alphabet) : alphabet[i] = c) - 1
  ELSE -1

PAD == Ord("=")

RECURSIVE RStripPad(_)
RStripPad(s) ==
  IF s # <<>> /\ s[Len(s)] = PAD THEN RStripPad(SubSeq(s, 1, Len(s) - 1)) ELSE s

(***************************************************************************)
(* binascii.hexlify / unhexlify, base64.b16encode / b16decode.             *)
(***************************************************************************)
HexLower == Range(48, 57) \o Range(97, 102)

hexlify(b) ==
  Flatten([i \in 1..Len(b) |-> <<HexLower[(b[i] \div 16) + 1], HexLower[(b[i] % 16) + 1]>>])

HexVal(c) ==
  IF c \in 48..57 THEN c - 48
  ELSE IF c \in 97..102 THEN c - 87
  ELSE IF c \in 65..70 THEN c - 55
  ELSE 16

unhexlify(s) ==
  LET a == _bytes_from_decode_data(s)
  IN  IF ~a.ok THEN a
      ELSE IF Len(s) % 2 # 0 THEN Raise("binascii.Error", "Odd-length string")
      ELSE IF \E i \in 1..Len(s) : HexVal(s[i]) = 16
        THEN Raise("binascii.Error", "Non-hexadecimal digit found")
      ELSE Ok([i \in 1..(Len(s) \div 2) |->
                 16 * HexVal(s[2 * i - 1]) + HexVal(s[2 * i])])

\* bytes.upper(): ASCII letters only
BytesUpper(b) == [i \in 1..Len(b) |-> IF b[i] \in 97..122 THEN b[i] - 32 ELSE b[i]]

b16encode(b) == BytesUpper(hexlify(b))

b16decode(s) ==
  LET a == _bytes_from_decode_data(s)
  IN  IF ~a.ok THEN a
      ELSE IF \E i \in 1..Len(s) : s[i] \notin (48..57) \cup (65..70)
        THEN Raise("binascii.Error", "Non-base16 digit found")
      ELSE unhexlify(s)

(***************************************************************************)
(* base64.b64encode / b64decode (binascii.a2b_base64, strict_mode off).    *)
(***************************************************************************)
B64Alphabet == Range(65, 90) \o Range(97, 122) \o Range(48, 57) \o <<43, 47>>

b64encode(b) ==
  LET bits == BytesToBits(b)
      fill == (6 - (Len(bits) % 6)) % 6
      digits == Groups(bits \o Zeros(fill), 6)
      pads == (3 - (Len(b) % 3)) % 3
  IN  [i \in 1..Len(digits) |-> B64Alphabet[digits[i] + 1]] \o Repeat(PAD, pads)

\* The scan of a2b_base64: i is the position read, quad the position in the
\* current group of four, left the bits carried over, pads the run of '='.
RECURSIVE a2b_base64(_, _, _, _, _, _)
a2b_base64(s, i, quad, left, pads, out) ==
  IF i > Len(s)
  THEN IF quad = 0 THEN Ok(out)
       ELSE IF quad = 1
         THEN Raise("binascii.Error", "number of data characters cannot be 1 more than a multiple of 4")
       ELSE Raise("binascii.Error", "Incorrect padding")
  ELSE IF s[i] = PAD
    THEN IF quad >= 2 /\ quad + pads + 1 >= 4 THEN Ok(out)
         ELSE a2b_base64(s, i + 1, quad, left, IF quad >= 2 THEN pads + 1 ELSE pads, out)
  ELSE LET v == IndexIn(B64Alphabet, s[i])
       IN  IF v = -1 THEN a2b_base64(s, i + 1, quad, left, pads, out)
           ELSE IF quad = 0 THEN a2b_base64(s, i + 1, 1, v, 0, out)
           ELSE IF quad = 1
             THEN a2b_base64(s, i + 1, 2, v % 16, 0, Append(out, left * 4 + (v \div 16)))
           ELSE IF quad = 2
             THEN a2b_base64(s, i + 1, 3, v % 4, 0, Append(out, left * 16 + (v \div 4)))
           ELSE a2b_base64(s, i + 1, 0, 0, 0, Append(out, left * 64 + v))

b64decode(s) ==
  LET a == _bytes_from_decode_data(s)
  IN  IF ~a.ok THEN a ELSE a2b_base64(s, 1, 0, 0, 0, <<>>)

(***************************************************************************)
(* base64.b32encode / b32decode and b32hexencode / b32hexdecode.           *)
(***************************************************************************)
B32Alphabet == Range(65, 90) \o Range(50, 55)

B32HexAlphabet == Range(48, 57) \o Range(65, 86)

_b32encode(alphabet, b) ==
  LET leftover == Len(b) % 5
      padded == IF leftover = 0 THEN b ELSE b \o Zeros(5 - leftover)
      digits == Groups(BytesToBits(padded), 5)
      encoded == [i \in 1..Len(digits) |-> alphabet[digits[i] + 1]]
      cut == IF leftover = 1 THEN 6 ELSE IF leftover = 2 THEN 4
             ELSE IF leftover = 3 THEN 3 ELSE IF leftover = 4 THEN 1 ELSE 0
  IN  SubSeq(encoded, 1, Len(encoded) - cut) \o Repeat(PAD, cut)

\* the bits of a quantum's characters, five per character
QuantumBits(alphabet, q) == Flatten([i \in 1..Len(q) |-> BitsOf(IndexIn(alphabet, q[i]), 5)])

\* acc.to_bytes(5): 40 bits, big endian
ToBytes5(bits) == Groups(Zeros(40 - Len(bits)) \o bits, 8)

_b32decode(alphabet, s) ==
  LET a == _bytes_from_decode_data(s)
      stripped == RStripPad(s)
      padchars == Len(s) - Len(stripped)
      nq == (Len(stripped) + 7) \div 8
      Quantum(q) == SubSeq(stripped, 8 * (q - 1) + 1,
                           IF 8 * q < Len(stripped) THEN 8 * q ELSE Len(stripped))
      decoded == Flatten([q \in 1..nq |-> ToBytes5(QuantumBits(alphabet, Quantum(q)))])
      last == ToBytes5(QuantumBits(alphabet, Quantum(nq)) \o Zeros(5 * padchars))
      leftover == (43 - 5 * padchars) \div 8
  IN  IF ~a.ok THEN a
      ELSE IF Len(s) % 8 # 0 THEN Raise("binascii.Error", "Incorrect padding")
      ELSE IF \E i \in 1..Len(stripped) : IndexIn(alphabet, stripped[i]) = -1
        THEN Raise("binascii.Error", "Non-base32 digit found")
      ELSE IF padchars \notin {0, 1, 3, 4, 6}
        THEN Raise("binascii.Error", "Incorrect padding")
      ELSE IF padchars # 0 /\ decoded # <<>>
        THEN Ok(SubSeq(decoded, 1, Len(decoded) - 5) \o SubSeq(last, 1, leftover))
      ELSE Ok(decoded)

b32encode(b) == _b32encode(B32Alphabet, b)

b32decode(s) == _b32decode(B32Alphabet, s)

b32hexencode(b) == _b32encode(B32HexAlphabet, b)

b32hexdecode(s) == _b32decode(B32HexAlphabet, s)

(***************************************************************************)
(* base64.a85encode / a85decode and b85encode / b85decode.  A 32-bit word  *)
(* is kept as two 16-bit halves <<hi, lo>> so that no intermediate value   *)
(* leaves the range of the checker's integers.                             *)
(***************************************************************************)
A85Alphabet == Range(33, 117)

B85Alphabet ==
  Range(48, 57) \o Range(65, 90) \o Range(97, 122)
  \o <<33, 35, 36, 37, 38, 40, 41, 42, 43, 45, 59, 60, 61, 62, 63, 64, 94, 95,
       96, 123, 124, 125, 126>>

WordOf(b4) == <<b4[1] * 256 + b4[2], b4[3] * 256 + b4[4]>>

WordBytes(w) == <<w[1] \div 256, w[1] % 256, w[2] \div 256, w[2] % 256>>

\* <<quotient, remainder>> of a word by 85
DivMod85(w) ==
  LET t == (w[1] % 85) * 65536 + w[2]
  IN  <<(<<w[1] \div 85, t \div 85>>), t % 85>>

\* the five base-85 digits of a word, most significant first
Digits85(w) ==
  LET s1 == DivMod85(w)
      s2 == DivMod85(s1[1])
      s3 == DivMod85(s2[1])
      s4 == DivMod85(s3[1])
  IN  <<s4[1][2], s4[2], s3[2], s2[2], s1[2]>>

\* acc * 85 + d; the high half may leave 16 bits (checked by Pack)
MulAdd85(w, d) ==
  LET lo == w[2] * 85 + d
  IN  <<w[1] * 85 + (lo \div 65536), lo % 65536>>

RECURSIVE Acc85(_, _)
Acc85(w, ds) == IF ds = <<>> THEN w ELSE Acc85(MulAdd85(w, Head(ds)), Tail(ds))

\* struct.Struct('!I').pack: fails on a value of 2^32 or more
Fits32(w) == w[1] < 65536

_85encode(b, chars, foldnuls) ==
  LET padding == (4 - (Len(b) % 4)) % 4
      padded == b \o Zeros(padding)
      nw == Len(padded) \div 4
      word(k) == WordOf(SubSeq(padded, 4 * k - 3, 4 * k))
      full(k) == LET ds == Digits85(word(k)) IN [i \in 1..5 |-> chars[ds[i] + 1]]
      chunk(k) ==
        IF foldnuls /\ word(k) = <<0, 0>>
        THEN (IF k = nw /\ padding # 0
              THEN SubSeq(Repeat(chars[1], 5), 1, 5 - padding)
              ELSE <<122>>)
        ELSE (IF k = nw /\ padding # 0
              THEN SubSeq(full(k), 1, 5 - padding)
              ELSE full(k))
  IN  Flatten([k \in 1..nw |-> chunk(k)])

a85encode(b) == _85encode(b, A85Alphabet, TRUE)

b85encode(b) == _85encode(b, B85Alphabet, FALSE)

\* The scan of a85decode over b + b'u' * 4; curr holds the pending digits.
RECURSIVE A85Scan(_, _, _, _)
A85Scan(s, i, curr, out) ==
  IF i > Len(s)
  THEN LET padding == 4 - Len(curr)
       IN  Ok(SubSeq(out, 1, Len(out) - padding))
  ELSE LET x == s[i]
       IN  IF x \in 33..117
           THEN IF Len(curr) = 4
                THEN LET acc == Acc85(<<0, 0>>, [j \in 1..5 |-> Append(curr, x)[j] - 33])
                     IN  IF Fits32(acc)
                         THEN A85Scan(s, i + 1, <<>>, out \o WordBytes(acc))
                         ELSE Raise("ValueError", "Ascii85 overflow")
                ELSE A85Scan(s, i + 1, Append(curr, x), out)
           ELSE IF x = 122
             THEN IF curr # <<>> THEN Raise("ValueError", "z inside Ascii85 5-tuple")
                  ELSE A85Scan(s, i + 1, curr, out \o <<0, 0, 0, 0>>)
           ELSE IF x \in {32, 9, 10, 13, 11} THEN A85Scan(s, i + 1, curr, out)
           ELSE Raise("ValueError", "Non-Ascii85 digit found")

a85decode(s) ==
  LET a == _bytes_from_decode_data(s)
  IN  IF ~a.ok THEN a ELSE A85Scan(s \o Repeat(117, 4), 1, <<>>, <<>>)

b85decode(s) ==
  LET a == _bytes_from_decode_data(s)
      padding == (5 - (Len(s) % 5)) % 5
      b == s \o Repeat(126, padding)
      nh == Len(b) \div 5
      hunk(k) == [j \in 1..5 |-> IndexIn(B85Alphabet, b[5 * (k - 1) + j])]
      acc(k) == Acc85(<<0, 0>>, hunk(k))
      \* the first hunk that fails, and how
      bad(k) == (\E j \in 1..5 : hunk(k)[j] = -1) \/ ~Fits32(acc(k))
      result == Flatten([k \in 1..nh |-> WordBytes(acc(k))])
  IN  IF ~a.ok THEN a
      ELSE IF \E k \in 1..nh : bad(k)
        THEN LET k == CHOOSE k \in 1..nh : bad(k) /\ \A m \in 1..(k - 1) : ~bad(m)
             IN  IF \E j \in 1..5 : hunk(k)[j] = -1
                 THEN Raise("ValueError", "bad base85 character")
                 ELSE Raise("ValueError", "base85 overflow")
      ELSE Ok(SubSeq(result, 1, Len(result) - padding))

(***************************************************************************)
(* command.py: CommandName, str_to_command_name, command_factory.          *)
(* An enum member is written as its name, a TLA+ string; MemberKey gives   *)
(* the same name as a Python str.                                          *)
(***************************************************************************)
CommandName == {"HELP", "EXIT", "ENCODE", "DECODE", "HASH"}

NAME_HELP == Str(<<"H","E","L","P">>)
NAME_EXIT == Str(<<"E","X","I","T">>)
NAME_ENCODE == Str(<<"E","N","C","O","D","E">>)
NAME_DECODE == Str(<<"D","E","C","O","D","E">>)
NAME_HASH == Str(<<"H","A","S","H">>)

MemberKey(m) ==
  CASE m = "HELP" -> NAME_HELP
    [] m = "EXIT" -> NAME_EXIT
    [] m = "ENCODE" -> NAME_ENCODE
    [] m = "DECODE" -> NAME_DECODE
    [] m = "HASH" -> NAME_HASH

NoKeys == {}

\* What a call of execute (or of the shell's execute_command) comes to: the
\* exception raised ("none" when it returns), its message as a tag, the
\* token and the algorithm names the message carries, and what was printed.
Returned(printed) ==
  [exc |-> "none", why |-> "", token |-> <<>>, available |-> NoKeys, printed |-> printed]

Raised(e, w, tok, avail, printed) ==
  [exc |-> e, why |-> w, token |-> tok, available |-> avail, printed |-> printed]

\* One print(): what is printed, by which command, and the payload.
Printed(what, cmd, alg, data) == [what |-> what, cmd |-> cmd, alg |-> alg, data |-> data]

\* A variant that looks the name up as it is written.
str_to_command_name_exact(name) ==
  IF \A m \in CommandName : MemberKey(m) # name
  THEN Raised("CommandNameConversionError", "Invalid command name", name, NoKeys, <<>>)
  ELSE [exc |-> "none", member |-> CHOOSE m \in CommandName : MemberKey(m) = name]

str_to_command_name(name) ==
  IF \A m \in CommandName : MemberKey(m) # StrUpper(name)
  THEN Raised("CommandNameConversionError", "Invalid command name", name, NoKeys, <<>>)
  ELSE [exc |-> "none", member |-> CHOOSE m \in CommandName : MemberKey(m) = StrUpper(name)]

\* A variant whose DECODE branch builds the wrong handler.
command_factory_decode_as_encode(name) ==
  IF name = "EXIT" THEN [class |-> "ExitCommand", name |-> name]
  ELSE IF name = "HELP" THEN [class |-> "HelpCommand", name |-> name]
  ELSE IF name = "ENCODE" THEN [class |-> "EncodeCommand", name |-> name]
  ELSE IF name = "DECODE" THEN [class |-> "EncodeCommand", name |-> name]
  ELSE IF name = "HASH" THEN [class |-> "HashCommand", name |-> name]
  ELSE [class |-> "NotImplementedError", name |-> name]

command_factory(name) ==
  IF name = "EXIT" THEN [class |-> "ExitCommand", name |-> name]
  ELSE IF name = "HELP" THEN [class |-> "HelpCommand", name |-> name]
  ELSE IF name = "ENCODE" THEN [class |-> "EncodeCommand", name |-> name]
  ELSE IF name = "DECODE" THEN [class |-> "DecodeCommand", name |-> name]
  ELSE IF name = "HASH" THEN [class |-> "HashCommand", name |-> name]
  ELSE [class |-> "NotImplementedError", name |-> name]

(***************************************************************************)
(* The algorithm tables: key (a Python str) to library function.           *)
(***************************************************************************)
K_A85 == Str(<<"A","8","5">>)
K_BASE16 == Str(<<"B","A","S","E","1","6">>)
K_BASE32 == Str(<<"B","A","S","E","3","2">>)
K_BASE32HEX == Str(<<"B","A","S","E","3","2","H","E","X">>)
K_BASE64 == Str(<<"B","A","S","E","6","4">>)
K_BASE85 == Str(<<"B","A","S","E","8","5">>)
K_HEXLIFY == Str(<<"H","E","X","L","I","F","Y">>)

\* A variant with the two Base32 decoders exchanged.
DecodeCommand_ALGORITHMS_Base32Exchanged ==
  (K_A85 :> "a85decode") @@ (K_BASE16 :> "b16decode") @@ (K_BASE32 :> "b32hexdecode")
  @@ (K_BASE32HEX :> "b32decode") @@ (K_BASE64 :> "b64decode")
  @@ (K_BASE85 :> "b85decode") @@ (K_HEXLIFY :> "unhexlify")

DecodeCommand_ALGORITHMS ==
  (K_A85 :> "a85decode") @@ (K_BASE16 :> "b16decode") @@ (K_BASE32 :> "b32decode")
  @@ (K_BASE32HEX :> "b32hexdecode") @@ (K_BASE64 :> "b64decode")
  @@ (K_BASE85 :> "b85decode") @@ (K_HEXLIFY :> "unhexlify")

EncodeCommand_ALGORITHMS ==
  (K_A85 :> "a85encode") @@ (K_BASE16 :> "b16encode") @@ (K_BASE32 :> "b32encode")
  @@ (K_BASE32HEX :> "b32hexencode") @@ (K_BASE64 :> "b64encode")
  @@ (K_BASE85 :> "b85encode") @@ (K_HEXLIFY :> "hexlify")

HashCommand_ALGORITHMS ==
  (Str(<<"B","L","A","K","E","2","B">>) :> "blake2b")
  @@ (Str(<<"B","L","A","K","E","2","S">>) :> "blake2s")
  @@ (Str(<<"M","D","5">>) :> "md5")
  @@ (Str(<<"S","H","A","1">>) :> "sha1")
  @@ (Str(<<"S","H","A","2","2","4">>) :> "sha224")
  @@ (Str(<<"S","H","A","2","5","6">>) :> "sha256")
  @@ (Str(<<"S","H","A","3","8","4">>) :> "sha384")
  @@ (Str(<<"S","H","A","3","_","2","2","4">>) :> "sha3_224")
  @@ (Str(<<"S","H","A","3","_","2","5","6">>) :> "sha3_256")
  @@ (Str(<<"S","H","A","3","_","3","8","4">>) :> "sha3_384")
  @@ (Str(<<"S","H","A","3","_","5","1","2">>) :> "sha3_512")
  @@ (Str(<<"S","H","A","5","1","2">>) :> "sha512")

\* Calling a table entry.
CallDecoder(fn, s) ==
  CASE fn = "a85decode" -> a85decode(s)
    [] fn = "b16decode" -> b16decode(s)
    [] fn = "b32decode" -> b32decode(s)
    [] fn = "b32hexdecode" -> b32hexdecode(s)
    [] fn = "b64decode" -> b64decode(s)
    [] fn = "b85decode" -> b85decode(s)
    [] fn = "unhexlify" -> unhexlify(s)

CallEncoder(fn, b) ==
  CASE fn = "a85encode" -> a85encode(b)
    [] fn = "b16encode" -> b16encode(b)
    [] fn = "b32encode" -> b32encode(b)
    [] fn = "b32hexencode" -> b32hexencode(b)
    [] fn = "b64encode" -> b64encode(b)
    [] fn = "b85encode" -> b85encode(b)
    [] fn = "hexlify" -> hexlify(b)

\* ALGORITHMS[key]: a missing key raises KeyError.
Lookup(table, key) ==
  IF key \in DOMAIN table THEN Ok(table[key]) ELSE Raise("KeyError", "missing key")

(***************************************************************************)
(* The five commands: _validate_argv and execute.  A _validate_argv gives  *)
(* the outcome of the call: Returned(<<>>) when it accepts.                *)
(***************************************************************************)
HelpCommand_validate_argv(self, argv) ==
  IF Len(argv) # 0
  THEN Raised("ValueError", "This command takes no arguments", MemberKey(self.name), NoKeys, <<>>)
  ELSE Returned(<<>>)

HelpCommand_execute(self, argv) ==
  LET v == HelpCommand_validate_argv(self, argv)
  IN  IF v.exc # "none" THEN v
      ELSE Returned(<<Printed("DOCUMENTATION", "HELP", <<>>, <<>>)>>)

ExitCommand_validate_argv(self, argv) ==
  IF Len(argv) # 0
  THEN Raised("ValueError", "This command takes no arguments", MemberKey(self.name), NoKeys, <<>>)
  ELSE Returned(<<>>)

\* exit(0) raises SystemExit with code 0 after the message is printed.
ExitCommand_execute(self, argv) ==
  LET v == ExitCommand_validate_argv(self, argv)
  IN  IF v.exc # "none" THEN v
      ELSE Raised("SystemExit", "0", <<>>, NoKeys, <<Printed("Exiting...", "EXIT", <<>>, <<>>)>>)

DecodeCommand_validate_argv(self, argv) ==
  IF Len(argv) # 2
  THEN Raised("ValueError", "This command takes exactly 2 arguments", MemberKey(self.name), NoKeys, <<>>)
  ELSE IF StrStrip(StrUpper(argv[2])) \notin DOMAIN DecodeCommand_ALGORITHMS
    THEN Raised("ValueError", "Invalid algorithm name", argv[2], DOMAIN DecodeCommand_ALGORITHMS, <<>>)
  ELSE Returned(<<>>)

DecodeCommand_execute(self, argv) ==
  IF Len(argv) = 0 THEN Returned(<<Printed("Syntax", "DECODE", <<>>, <<>>)>>)
  ELSE LET v == DecodeCommand_validate_argv(self, argv)
           func == Lookup(DecodeCommand_ALGORITHMS, StrStrip(StrUpper(argv[2])))
           raw == CallDecoder(func.val, argv[1])
           text == BytesDecode(raw.val)
       IN  IF v.exc # "none" THEN v
           ELSE IF ~func.ok THEN Raised(func.exc, func.why, <<>>, NoKeys, <<>>)
           ELSE IF ~raw.ok THEN Raised(raw.exc, raw.why, <<>>, NoKeys, <<>>)
           ELSE IF ~text.ok THEN Raised(text.exc, text.why, <<>>, NoKeys, <<>>)
           ELSE Returned(<<Printed("str", "DECODE", StrStrip(StrUpper(argv[2])), text.val)>>)

EncodeCommand_validate_argv(self, argv) ==
  IF Len(argv) # 2
  THEN Raised("ValueError", "This command takes exactly 2 arguments", MemberKey(self.name), NoKeys, <<>>)
  ELSE IF StrStrip(StrUpper(argv[2])) \notin DOMAIN EncodeCommand_ALGORITHMS
    THEN Raised("ValueError", "Invalid algorithm name", argv[2], DOMAIN EncodeCommand_ALGORITHMS, <<>>)
  ELSE Returned(<<>>)

\* A variant that looks the algorithm up uppercased but not stripped.
EncodeCommand_execute_LookupUnstripped(self, argv) ==
  IF Len(argv) = 0 THEN Returned(<<Printed("Syntax", "ENCODE", <<>>, <<>>)>>)
  ELSE LET v == EncodeCommand_validate_argv(self, argv)
           func == Lookup(EncodeCommand_ALGORITHMS, StrUpper(argv[2]))
           input_data_bytes == StrEncode(argv[1])
       IN  IF v.exc # "none" THEN v
           ELSE IF ~func.ok THEN Raised(func.exc, func.why, <<>>, NoKeys, <<>>)
           ELSE IF ~input_data_bytes.ok
             THEN Raised(input_data_bytes.exc, input_data_bytes.why, <<>>, NoKeys, <<>>)
           ELSE Returned(<<Printed("bytes", "ENCODE", StrUpper(argv[2]),
                                   CallEncoder(func.val, input_data_bytes.val))>>)

\* print(func_(input_data_bytes)) prints a bytes object.
EncodeCommand_execute(self, argv) ==
  IF Len(argv) = 0 THEN Returned(<<Printed("Syntax", "ENCODE", <<>>, <<>>)>>)
  ELSE LET v == EncodeCommand_validate_argv(self, argv)
           func == Lookup(EncodeCommand_ALGORITHMS, StrStrip(StrUpper(argv[2])))
           input_data_bytes == StrEncode(argv[1])
       IN  IF v.exc # "none" THEN v
           ELSE IF ~func.ok THEN Raised(func.exc, func.why, <<>>, NoKeys, <<>>)
           ELSE IF ~input_data_bytes.ok
             THEN Raised(input_data_bytes.exc, input_data_bytes.why, <<>>, NoKeys, <<>>)
           ELSE Returned(<<Printed("bytes", "ENCODE", StrStrip(StrUpper(argv[2])),
                                   CallEncoder(func.val, input_data_bytes.val))>>)

\* A variant that examines the algorithm name before the count.
HashCommand_validate_argv_AlgorithmFirst(self, argv) ==
  IF Len(argv) >= 2 /\ StrUpper(argv[2]) \notin DOMAIN HashCommand_ALGORITHMS
  THEN Raised("ValueError", "Invalid algorithm name", argv[2], DOMAIN HashCommand_ALGORITHMS, <<>>)
  ELSE IF Len(argv) # 2
    THEN Raised("ValueError", "This command takes exactly 2 arguments", MemberKey(self.name), NoKeys, <<>>)
  ELSE Returned(<<>>)

\* The algorithm name is uppercased here, and not stripped.
HashCommand_validate_argv(self, argv) ==
  IF Len(argv) # 2
  THEN Raised("ValueError", "This command takes exactly 2 arguments", MemberKey(self.name), NoKeys, <<>>)
  ELSE IF StrUpper(argv[2]) \notin DOMAIN HashCommand_ALGORITHMS
    THEN Raised("ValueError", "Invalid algorithm name", argv[2], DOMAIN HashCommand_ALGORITHMS, <<>>)
  ELSE Returned(<<>>)

\* A variant without the shortcut for an empty argument list.
HashCommand_execute_NoShortcut(self, argv) ==
  LET v == HashCommand_validate_argv(self, argv)
      input_data_bytes == StrEncode(argv[1])
      hashing_fn == Lookup(HashCommand_ALGORITHMS, StrStrip(StrUpper(argv[2])))
  IN  IF v.exc # "none" THEN v
      ELSE IF ~input_data_bytes.ok
        THEN Raised(input_data_bytes.exc, input_data_bytes.why, <<>>, NoKeys, <<>>)
      ELSE IF ~hashing_fn.ok THEN Raised(hashing_fn.exc, hashing_fn.why, <<>>, NoKeys, <<>>)
      ELSE Returned(<<Printed("hexdigest", "HASH", StrStrip(StrUpper(argv[2])),
                              input_data_bytes.val)>>)

\* The digest itself is the library's: the printed hexdigest is kept as the
\* pair of the function applied and the bytes it was applied to.
HashCommand_execute(self, argv) ==
  IF Len(argv) = 0 THEN Returned(<<Printed("Syntax", "HASH", <<>>, <<>>)>>)
  ELSE LET v == HashCommand_validate_argv(self, argv)
           input_data_bytes == StrEncode(argv[1])
           hashing_fn == Lookup(HashCommand_ALGORITHMS, StrStrip(StrUpper(argv[2])))
       IN  IF v.exc # "none" THEN v
           ELSE IF ~input_data_bytes.ok
             THEN Raised(input_data_bytes.exc, input_data_bytes.why, <<>>, NoKeys, <<>>)
           ELSE IF ~hashing_fn.ok THEN Raised(hashing_fn.exc, hashing_fn.why, <<>>, NoKeys, <<>>)
           ELSE Returned(<<Printed("hexdigest", "HASH", StrStrip(StrUpper(argv[2])),
                                   input_data_bytes.val)>>)

\* command.execute(argv), dispatched on the handler's class.
Execute(command, argv) ==
  CASE command.class = "HelpCommand" -> HelpCommand_execute(command, argv)
    [] command.class = "ExitCommand" -> ExitCommand_execute(command, argv)
    [] command.class = "DecodeCommand" -> DecodeCommand_execute(command, argv)
    [] command.class = "EncodeCommand" -> EncodeCommand_execute(command, argv)
    [] command.class = "HashCommand" -> HashCommand_execute(command, argv)

(***************************************************************************)
(* shell.py: the Shell and one turn of its loop.                           *)
(***************************************************************************)
VARIABLES
  supported_commands,  \* Shell.supported_commands: CommandName -> handler
  stdin,               \* the lines typed and not yet read
  user_input,          \* the line input() returned last
  command_name,        \* the member the last call resolved, or "none"
  argv,                \* the argument list of the last call
  outcome,             \* what the last call came to (see Returned, Raised)
  stdout,              \* what the last call or turn printed, in order
  running,             \* the process is alive
  exit_status,         \* its exit status once it is not (-1 while alive)
  call,                \* the function the last step entered
  pending,             \* direct calls of the handlers still to be made
  source               \* the text whose encoding the last decode was given

vars ==
  <<supported_commands, stdin, user_input, command_name, argv, outcome, stdout,
    running, exit_status, call, pending, source>>

\* Shell.__init__
Shell_init == [name \in CommandName |-> command_factory(name)]

\* Shell._parse_cmd
_parse_cmd(cmd) ==
  LET input_elements == SplitSpace(cmd)
      binary == StrUpper(StrStrip(input_elements[1]))
      args == [i \in 1..(Len(input_elements) - 1) |-> StrStrip(input_elements[i + 1])]
      name == str_to_command_name(binary)
  IN  IF name.exc # "none" THEN name
      ELSE [exc |-> "none", command_name |-> name.member, argv |-> args]

\* Shell.execute_command
execute_command(commands, cmd) ==
  LET parsed == _parse_cmd(cmd)
  IN  IF parsed.exc # "none" THEN parsed
      ELSE Execute(commands[parsed.command_name], parsed.argv)

\* A variant of the except clause that names CommandNameConversionError alone.
CaughtConversionErrorOnly(exc) == exc = "CommandNameConversionError"

\* except (CommandNameConversionError, ValueError): binascii.Error and the
\* Unicode errors are subclasses of ValueError.
CaughtByShell(exc) ==
  exc \in {"CommandNameConversionError", "ValueError", "binascii.Error",
           "UnicodeDecodeError", "UnicodeEncodeError"}

(***************************************************************************)
(* The lines typed: a command token and up to MaxArgs further pieces,      *)
(* joined by single spaces.  Pieces hold no space themselves, so an empty  *)
(* piece is what a leading, doubled or trailing space produces.            *)
(***************************************************************************)
StrLower(s) == [i \in 1..Len(s) |-> IF s[i] \in 65..90 THEN s[i] + 32 ELSE s[i]]

Capitalised(s) == [i \in 1..Len(s) |-> IF i = 1 THEN s[i] ELSE StrLower(s)[i]]

\* lower case; mixed case between two tabs
Spellings(key) == {StrLower(key), <<9>> \o Capitalised(key) \o <<9>>}

T_foo == Str(<<"f","o","o">>)
T_base64 == Str(<<"b","a","s","e","6","4">>)
T_Md5 == Str(<<"M","d","5">>)
\* "aGk=" is the Base64 form of "hi"; "/w==" that of the byte 255
T_aGk == Str(<<"a","G","k","=">>)
T_ff == <<47>> \o Str(<<"w","=","=">>)
T_he_lp == Str(<<"h","e">>) \o <<9>> \o Str(<<"l","p">>)
\* names written with the long s (U+017F) and the dotless i (U+0131), whose
\* upper case is S and I; with the sharp s (U+00DF), whose upper case is SS
T_long_s_hash == Str(<<"h","a">>) \o <<383>> \o Str(<<"h">>)
T_dotless_exit == Str(<<"e","x">>) \o <<305>> \o Str(<<"t">>)
T_sharp_s == Str(<<"h","a">>) \o <<223>>
\* "sHa1" with the long s, followed by an em space (U+2003)
T_long_s_sha1 == <<383>> \o Str(<<"H","a","1">>) \o <<8195>>
\* "base64" with the long s, between an ideographic space (U+3000) and a
\* line separator (U+2028)
T_long_s_base64 == <<12288>> \o Str(<<"b","a">>) \o <<383>> \o Str(<<"e","6","4">>) \o <<8232>>

CommandTokens ==
  UNION {Spellings(MemberKey(m)) : m \in CommandName}
  \cup {<<>>, T_foo, T_he_lp, T_long_s_hash \o <<12288>>, T_dotless_exit}

ArgPieces == {<<>>, T_aGk, T_base64, T_long_s_sha1, T_ff}

RECURSIVE SeqsUpTo(_, _)
SeqsUpTo(S, n) ==
  IF n = 0 THEN {<<>>}
  ELSE LET shorter == SeqsUpTo(S, n - 1)
       IN  shorter \cup {Append(s, x) : s \in {q \in shorter : Len(q) = n - 1}, x \in S}

RECURSIVE JoinSpace(_)
JoinSpace(pieces) ==
  IF Len(pieces) = 1 THEN pieces[1]
  ELSE pieces[1] \o <<SPACE>> \o JoinSpace(Tail(pieces))

\* the lines with up to n pieces after the command token
Lines(n) == {JoinSpace(<<c>> \o a) : c \in CommandTokens, a \in SeqsUpTo(ArgPieces, n)}

\* What may be typed after the first line.
LaterLines == {StrLower(NAME_HELP), T_foo, StrLower(NAME_EXIT)}

\* What the user types in a session: nothing, or any line and then perhaps
\* one more.
Scripts(n) ==
  {<<>>} \cup {<<l>> : l \in Lines(n)} \cup {<<l, k>> : l \in Lines(n), k \in LaterLines}

(***************************************************************************)
(* The session: main() builds the Shell and enters the loop.               *)
(***************************************************************************)
Constructed ==
  /\ supported_commands = Shell_init
  /\ user_input = <<>>
  /\ command_name = "none"
  /\ argv = <<>>
  /\ outcome = Returned(<<>>)
  /\ stdout = <<Printed("DOC", "main", <<>>, <<>>)>>
  /\ running = TRUE
  /\ exit_status = -1
  /\ call = "main"
  /\ source = <<>>

Init ==
  /\ Constructed
  /\ stdin \in Scripts(MaxArgs)
  /\ pending = <<>>

\* One turn of Shell.enter_command_to_execute: input(), execute_command in
\* the try, print(error) in the except.  An exception the except clause
\* does not name leaves the loop and main, and ends the process.
\*
\* stdin holds the lines typed and not yet read.  With stdin empty, input()
\* either waits (the terminal is open and nothing is typed: no step) or
\* finds the input ended (a closed pipe, Ctrl-D) and raises EOFError.
\* Signals sent to the process from outside are no part of its input and
\* are not modelled.
CanRead == running /\ stdin # <<>>

AtEndOfInput == running /\ stdin = <<>>

\* input() returns a line: the rest of the loop body runs on it.
LineRead ==
  LET line == Head(stdin)
      parsed == _parse_cmd(line)
      result == execute_command(supported_commands, line)
      caught == CaughtByShell(result.exc)
  IN  /\ CanRead
      /\ stdin' = Tail(stdin)
      /\ user_input' = line
      /\ command_name' = IF parsed.exc = "none" THEN parsed.command_name ELSE "none"
      /\ argv' = IF parsed.exc = "none" THEN parsed.argv ELSE <<>>
      /\ outcome' = result
      /\ stdout' = IF caught
                   THEN result.printed \o <<Printed("error", result.exc, result.token, <<>>)>>
                   ELSE result.printed
      /\ running' = (result.exc = "none" \/ caught)
      /\ exit_status' = IF result.exc = "none" \/ caught THEN exit_status
                        ELSE IF result.exc = "SystemExit" THEN 0 ELSE 1
      /\ call' = "enter_command_to_execute"
      /\ UNCHANGED <<supported_commands, pending, source>>

\* input() raises EOFError: the statement is outside the try, nothing is
\* assigned to user_input and no command is parsed or executed; the
\* exception leaves enter_command_to_execute and main, and the interpreter
\* prints the traceback to stderr and exits with status 1.
InputEnded ==
  /\ AtEndOfInput
  /\ user_input' = <<>>
  /\ command_name' = "none"
  /\ argv' = <<>>
  /\ outcome' = Raised("EOFError", "EOF when reading a line", <<>>, NoKeys, <<>>)
  /\ stdout' = <<>>
  /\ running' = FALSE
  /\ exit_status' = 1
  /\ call' = "enter_command_to_execute"
  /\ UNCHANGED <<supported_commands, stdin, pending, source>>

enter_command_to_execute == LineRead \/ InputEnded

Next == enter_command_to_execute

Spec == Init /\ [][Next]_vars

(***************************************************************************)
(* The handlers called directly, outside the loop: str_to_command_name on  *)
(* any token, execute on any argument list, and encode followed by decode  *)
(* of what encode printed.                                                 *)
(***************************************************************************)
\* every way of writing a name in upper and lower case
RECURSIVE AllCases(_)
AllCases(key) ==
  IF key = <<>> THEN {<<>>}
  ELSE {<<c>> \o r : c \in {Head(key), StrLower(key)[1]}, r \in AllCases(Tail(key))}

Padded(s) ==
  {<<w>> \o s : w \in {32, 9, 10, 12288}} \cup {s \o <<w>> : w \in {32, 9, 10, 8232}}
  \cup {<<32>> \o s \o <<9, 32>>}

NameTokens ==
  UNION {AllCases(MemberKey(m)) : m \in CommandName}
  \cup UNION {Padded(StrLower(MemberKey(m))) : m \in CommandName}
  \cup {T_long_s_hash, T_dotless_exit, T_sharp_s, <<8195>> \o T_long_s_hash}
  \cup {<<>>, T_foo, T_he_lp, Str(<<"h","e","l","p","s">>), Str(<<"h","e","l">>),
        Str(<<"h","e">>) \o <<32>> \o Str(<<"l","p">>)}

UnitArgs ==
  {<<>>, T_aGk, T_ff, T_base64, <<32>> \o Capitalised(K_BASE64) \o <<9>>, T_Md5,
   T_long_s_sha1, T_long_s_base64,
   StrLower(Str(<<"S","H","A","1">>)) \o <<32>>}

TextAlphabet == {0, 104, 233, 8364}

Texts == SeqsUpTo(TextAlphabet, MaxTextLen)

UnitCall(fn, name, args) == [fn |-> fn, name |-> name, args |-> args]

\* lines for _parse_cmd alone: a token, or a token, a space and one argument
ParseLines == NameTokens \cup {tok \o <<SPACE>> \o T_aGk : tok \in NameTokens}

\* the calls made, with argument lists of up to n elements
UnitCalls(n) ==
  {<<UnitCall("str_to_command_name", "none", <<tok>>)>> : tok \in NameTokens}
  \cup {<<UnitCall("_parse_cmd", "none", <<line>>)>> : line \in ParseLines}
  \cup {<<UnitCall("execute", m, a)>> : m \in CommandName, a \in SeqsUpTo(UnitArgs, n)}
  \cup {<<UnitCall("execute", "ENCODE", <<text, key>>),
          UnitCall("decode_printed", "DECODE", <<>>)>> :
          text \in Texts, key \in (DOMAIN EncodeCommand_ALGORITHMS) \cup (DOMAIN DecodeCommand_ALGORITHMS)}

UnitInit ==
  /\ Constructed
  /\ stdin = <<>>
  /\ pending \in UnitCalls(MaxArgs)

\* str_to_command_name(token)
CallStrToCommandName ==
  LET c == Head(pending)
      r == str_to_command_name(c.args[1])
  IN  /\ pending # <<>>
      /\ c.fn = "str_to_command_name"
      /\ pending' = Tail(pending)
      /\ call' = c.fn
      /\ argv' = c.args
      /\ command_name' = IF r.exc = "none" THEN r.member ELSE "none"
      /\ outcome' = IF r.exc = "none" THEN Returned(<<>>) ELSE r
      /\ stdout' = <<>>
      /\ UNCHANGED <<supported_commands, stdin, user_input, running, exit_status, source>>

\* Shell._parse_cmd(cmd)
CallParseCmd ==
  LET c == Head(pending)
      r == _parse_cmd(c.args[1])
  IN  /\ pending # <<>>
      /\ c.fn = "_parse_cmd"
      /\ pending' = Tail(pending)
      /\ call' = c.fn
      /\ user_input' = c.args[1]
      /\ argv' = IF r.exc = "none" THEN r.argv ELSE <<>>
      /\ command_name' = IF r.exc = "none" THEN r.command_name ELSE "none"
      /\ outcome' = IF r.exc = "none" THEN Returned(<<>>) ELSE r
      /\ stdout' = <<>>
      /\ UNCHANGED <<supported_commands, stdin, running, exit_status, source>>

\* supported_commands[name].execute(argv)
CallExecute ==
  LET c == Head(pending)
      r == Execute(supported_commands[c.name], c.args)
  IN  /\ pending # <<>>
      /\ c.fn = "execute"
      /\ pending' = Tail(pending)
      /\ call' = c.fn
      /\ argv' = c.args
      /\ command_name' = c.name
      /\ outcome' = r
      /\ stdout' = r.printed
      /\ source' = <<>>
      /\ UNCHANGED <<supported_commands, stdin, user_input, running, exit_status>>

\* DecodeCommand.execute on the bytes the encode before it printed (read as
\* ASCII text) and the same algorithm name.
CallDecodePrinted ==
  LET c == Head(pending)
      args == <<stdout[1].data, argv[2]>>
      r == Execute(supported_commands[c.name], args)
  IN  /\ pending # <<>>
      /\ c.fn = "decode_printed"
      /\ outcome.exc = "none"
      /\ stdout # <<>>
      /\ stdout[1].what = "bytes"
      /\ pending' = Tail(pending)
      /\ call' = c.fn
      /\ argv' = args
      /\ command_name' = c.name
      /\ outcome' = r
      /\ stdout' = r.printed
      /\ source' = argv[1]
      /\ UNCHANGED <<supported_commands, stdin, user_input, running, exit_status>>

UnitNext == CallStrToCommandName \/ CallParseCmd \/ CallExecute \/ CallDecodePrinted

UnitSpec == UnitInit /\ [][UnitNext]_vars

(***************************************************************************)
(* Properties.                                                             *)
(***************************************************************************)
InLoop == call = "enter_command_to_execute"

\* the last turn of the loop read a line and processed it
LineTurn == InLoop /\ outcome.exc # "EOFError"

ArgCountMessages ==
  {"This command takes no arguments", "This command takes exactly 2 arguments"}

LastPrintIsError == stdout # <<>> /\ stdout[Len(stdout)].what = "error"

\* C1: a line that fails with an unknown command, an argument-count
\* mismatch, an unknown algorithm or a malformed decode payload (bytes that
\* are no text included) has its error caught and printed by the loop; the
\* process stays alive with no exit status, and the next line typed is read.
C1_ErrorsCaughtLoopContinues ==
  (LineTurn /\ outcome.exc \notin {"none", "SystemExit"}) =>
    /\ outcome.exc \in {"CommandNameConversionError", "ValueError",
                        "binascii.Error", "UnicodeDecodeError"}
    /\ running
    /\ exit_status = -1
    /\ LastPrintIsError
    /\ stdout[Len(stdout)].cmd = outcome.exc
    /\ (stdin # <<>> => CanRead)

\* C1 witness: a decode whose bytes are not UTF-8 text failed, the shell is
\* alive and a further line is waiting to be read.
C1_Witness ==
  /\ InLoop
  /\ outcome.exc = "UnicodeDecodeError"
  /\ command_name = "DECODE"
  /\ running
  /\ stdin # <<>>

\* C2 as stated (refuted): the process ends only through exit with no
\* argument: it is dead exactly when the last line resolved to EXIT with
\* an empty argument list, and then "Exiting..." was printed, the status
\* is 0 and no line is read any more; after any other line (exit with
\* arguments included, which is an argument-count error) the loop is
\* running.
C2_EndsOnlyThroughExit ==
  /\ ~running <=> (InLoop /\ command_name = "EXIT" /\ argv = <<>>)
  /\ ~running =>
       /\ outcome.exc = "SystemExit"
       /\ exit_status = 0
       /\ stdout = <<Printed("Exiting...", "EXIT", <<>>, <<>>)>>
       /\ ~CanRead
  /\ (InLoop /\ command_name = "EXIT" /\ argv # <<>>) =>
       /\ running
       /\ outcome.exc = "ValueError"
       /\ outcome.why \in ArgCountMessages

\* What holds of the lines: a turn that read a line ended the process
\* exactly when the line resolved to EXIT with an empty argument list,
\* with "Exiting..." printed and status 0; the process ends in one other
\* way, the end of the input, with an EOFError the loop does not catch and
\* status 1.
EndsThroughExitOrEndOfInput ==
  /\ LineTurn =>
       /\ ~running <=> (command_name = "EXIT" /\ argv = <<>>)
       /\ ~running =>
            /\ outcome.exc = "SystemExit"
            /\ exit_status = 0
            /\ stdout = <<Printed("Exiting...", "EXIT", <<>>, <<>>)>>
       /\ (command_name = "EXIT" /\ argv # <<>>) =>
            /\ outcome.exc = "ValueError"
            /\ outcome.why \in ArgCountMessages
  /\ (InLoop /\ ~LineTurn) =>
       /\ ~running
       /\ exit_status = 1
       /\ stdin = <<>>
       /\ stdout = <<>>
  /\ ~running => ~CanRead /\ InLoop
  /\ running <=> exit_status = -1

\* the lower-case letters of the capital k: its own small letter, and for
\* S and I also the long s (U+017F) and the dotless i (U+0131)
SmallLetters(k) ==
  {k + 32} \cup (IF k = 83 THEN {383} ELSE IF k = 73 THEN {305} ELSE {})

\* t is key up to the case of its letters
SameUpToCase(t, key) ==
  /\ Len(t) = Len(key)
  /\ \A i \in 1..Len(key) :
       t[i] = key[i] \/ (key[i] \in 65..90 /\ t[i] \in SmallLetters(key[i]))

\* t is key up to the case of its letters and whitespace before and after
SameUpToCaseAndEdges(t, key) ==
  \E i \in 0..Len(t) : \E j \in i..Len(t) :
    /\ \A k \in 1..i : IsSpace(t[k])
    /\ \A k \in (j + 1)..Len(t) : IsSpace(t[k])
    /\ SameUpToCase(SubSeq(t, i + 1, j), key)

\* the piece of a line before its first space
FirstPiece(line) ==
  IF \E i \in 1..Len(line) : line[i] = SPACE
  THEN SubSeq(line, 1, (CHOOSE i \in 1..Len(line) :
                          line[i] = SPACE /\ \A j \in 1..(i - 1) : line[j] # SPACE) - 1)
  ELSE line

\* C3 as stated (refuted): str_to_command_name(token) returns the member
\* whose name the token equals up to letter case and leading or trailing
\* whitespace, and fails with CommandNameConversionError carrying the token
\* when there is none.
C3_TrimsAndUppercases ==
  call = "str_to_command_name" =>
    /\ \A m \in CommandName :
         SameUpToCaseAndEdges(argv[1], MemberKey(m)) =>
           (outcome.exc = "none" /\ command_name = m)
    /\ (\A m \in CommandName : ~SameUpToCaseAndEdges(argv[1], MemberKey(m))) =>
         (outcome.exc = "CommandNameConversionError" /\ outcome.token = argv[1])

\* C3 as amended: str_to_command_name(token) uppercases the token and does
\* not trim it: it returns the member whose name the token equals up to
\* letter case (the long s and the dotless i counted as small letters of
\* S and I, as str.upper() does), and fails with CommandNameConversionError
\* carrying the token for every other token, one with leading, trailing or
\* internal whitespace included.  The trimming is Shell._parse_cmd's: the first
\* piece of a line resolves to the member it equals up to letter case and
\* whitespace around it, and to none otherwise.
C3_UppercasesCallerTrims ==
  /\ call = "str_to_command_name" =>
       /\ \A m \in CommandName :
            SameUpToCase(argv[1], MemberKey(m)) =>
              (outcome.exc = "none" /\ command_name = m)
       /\ (\A m \in CommandName : ~SameUpToCase(argv[1], MemberKey(m))) =>
            /\ outcome.exc = "CommandNameConversionError"
            /\ outcome.token = argv[1]
            /\ command_name = "none"
  /\ call = "_parse_cmd" =>
       /\ \A m \in CommandName :
            SameUpToCaseAndEdges(FirstPiece(user_input), MemberKey(m)) =>
              (outcome.exc = "none" /\ command_name = m)
       /\ (\A m \in CommandName :
             ~SameUpToCaseAndEdges(FirstPiece(user_input), MemberKey(m))) =>
            /\ outcome.exc = "CommandNameConversionError"
            /\ command_name = "none"

\* C3 witness: str_to_command_name was given a name in lower case with a
\* space before it and refused it.
C3_Witness ==
  /\ call = "str_to_command_name"
  /\ argv = <<(<<SPACE>> \o StrLower(NAME_HELP))>>
  /\ outcome.exc = "CommandNameConversionError"

SyntaxCommands == {"ENCODE", "DECODE", "HASH"}

\* C4: encode, decode and hash executed with an empty argument list print
\* their syntax line, and only that, and return without raising.
C4_NoArgumentsPrintSyntax ==
  (call = "execute" /\ command_name \in SyntaxCommands /\ argv = <<>>) =>
    /\ outcome.exc = "none"
    /\ stdout = <<Printed("Syntax", command_name, <<>>, <<>>)>>

\* C4 witness: hash was executed with no argument.
C4_Witness ==
  /\ call = "execute"
  /\ command_name = "HASH"
  /\ argv = <<>>
  /\ stdout # <<>>

\* C5: help and exit fail with an argument-count error for every non-empty
\* argument list; encode, decode and hash fail with one for every list of
\* a length other than 0 and 2, whatever the second argument is: never an
\* invalid-algorithm error, and nothing is printed.
C5_ArgumentCountChecked ==
  call = "execute" =>
    /\ (command_name \in {"HELP", "EXIT"} /\ argv # <<>>) =>
         /\ outcome.exc = "ValueError"
         /\ outcome.why = "This command takes no arguments"
         /\ stdout = <<>>
    /\ (command_name \in SyntaxCommands /\ Len(argv) \notin {0, 2}) =>
         /\ outcome.exc = "ValueError"
         /\ outcome.why = "This command takes exactly 2 arguments"
         /\ stdout = <<>>

\* C5 witness: hash was executed with three arguments, the second of which
\* names no algorithm.
C5_Witness ==
  /\ call = "execute"
  /\ command_name = "HASH"
  /\ Len(argv) = 3
  /\ StrStrip(StrUpper(argv[2])) \notin DOMAIN HashCommand_ALGORITHMS
  /\ outcome.exc = "ValueError"

AlgorithmKeys(name) ==
  IF name = "ENCODE" THEN DOMAIN EncodeCommand_ALGORITHMS
  ELSE IF name = "DECODE" THEN DOMAIN DecodeCommand_ALGORITHMS
  ELSE DOMAIN HashCommand_ALGORITHMS

\* C6 as stated (refuted for hash): encode, decode and hash executed with
\* two arguments reject the algorithm as invalid exactly when its
\* uppercased, trimmed form is no key of the command's table; a rejection
\* is a ValueError naming the available algorithms, and prints nothing.
C6_SameAcceptanceRule ==
  (call = "execute" /\ command_name \in SyntaxCommands /\ Len(argv) = 2) =>
    /\ (outcome.why = "Invalid algorithm name") <=>
         (StrStrip(StrUpper(argv[2])) \notin AlgorithmKeys(command_name))
    /\ (outcome.why = "Invalid algorithm name") =>
         /\ outcome.exc = "ValueError"
         /\ outcome.available = AlgorithmKeys(command_name)
         /\ stdout = <<>>

\* C7: the encode and decode tables have the same keys, and for each of
\* them and every text, decode given what encode printed for the text, and
\* the same algorithm name, prints the text; the encode never fails, so
\* the decode is always made.
C7_RoundTrip ==
  /\ DOMAIN EncodeCommand_ALGORITHMS = DOMAIN DecodeCommand_ALGORITHMS
  /\ call = "decode_printed" =>
       /\ outcome.exc = "none"
       /\ stdout = <<Printed("str", "DECODE", StrStrip(StrUpper(argv[2])), source)>>
  /\ (pending # <<>> /\ Head(pending).fn = "decode_printed") =>
       (outcome.exc = "none" /\ stdout # <<>> /\ stdout[1].what = "bytes")

\* C7 witness: a text of four code points, among them a NUL and one beyond
\* ASCII, came back from BASE32HEX.
C7_Witness ==
  /\ call = "decode_printed"
  /\ argv[2] = K_BASE32HEX
  /\ Len(source) = 4
  /\ \E i \in 1..4 : source[i] = 0
  /\ \E i \in 1..4 : source[i] > 127
  /\ stdout[1].data = source

ExpectedClass(n) ==
  CASE n = "HELP" -> "HelpCommand"
    [] n = "EXIT" -> "ExitCommand"
    [] n = "ENCODE" -> "EncodeCommand"
    [] n = "DECODE" -> "DecodeCommand"
    [] n = "HASH" -> "HashCommand"

\* C8: at every point of a session the shell's mapping has the five
\* command names as its keys, each mapped to the handler of its own
\* variant, carrying that name.
C8_RegistryInvariant ==
  /\ DOMAIN supported_commands = CommandName
  /\ \A n \in CommandName :
       /\ supported_commands[n].class = ExpectedClass(n)
       /\ supported_commands[n].name = n

\* C8 witness: a decode has been executed from the loop and has printed.
C8_Witness ==
  /\ InLoop
  /\ command_name = "DECODE"
  /\ outcome.exc = "none"
  /\ Len(argv) = 2

Spaces(line) == {i \in 1..Len(line) : line[i] = SPACE}

\* C9: a line is cut at every space: a resolved line has one argument per
\* space, empty ones included; a line that starts with a space has an
\* empty command token and is an unknown command; a command name followed
\* by one trailing space has the one-element argument list of the empty
\* string and is an argument-count error, with nothing but the error
\* printed.
C9_SplitsOnEverySpace ==
  InLoop =>
    /\ command_name # "none" => Len(argv) = Cardinality(Spaces(user_input))
    /\ (user_input # <<>> /\ user_input[1] = SPACE) =>
         /\ outcome.exc = "CommandNameConversionError"
         /\ outcome.token = <<>>
    /\ (command_name # "none" /\ Spaces(user_input) = {Len(user_input)}) =>
         /\ argv = << <<>> >>
         /\ outcome.exc = "ValueError"
         /\ outcome.why \in ArgCountMessages
         /\ Len(stdout) = 1
         /\ LastPrintIsError

\* C9 witness: "encode" followed by a space was typed.
C9_Witness ==
  /\ InLoop
  /\ user_input = StrLower(NAME_ENCODE) \o <<SPACE>>
  /\ running

\* C10: no execute ends in a missing-key failure: whenever _validate_argv
\* accepts a two-element argument list, the uppercased and stripped
\* algorithm name is a key of the table execute looks it up in.
C10_ValidatedNameIsAKey ==
  call = "execute" =>
    /\ outcome.exc # "KeyError"
    /\ (command_name \in SyntaxCommands /\ Len(argv) = 2
        /\ outcome.why \notin {"Invalid algorithm name"} \cup ArgCountMessages) =>
         StrStrip(StrUpper(argv[2])) \in AlgorithmKeys(command_name)

\* C10 witness: encode accepted an algorithm name written with whitespace
\* around it and printed a result.
C10_Witness ==
  /\ call = "execute"
  /\ command_name = "ENCODE"
  /\ Len(argv) = 2
  /\ argv[2] # StrStrip(argv[2])
  /\ outcome.exc = "none"

====
